---- MODULE Spec2Model ----
(***************************************************************************)
(* ng-bank-account-validator: the NUBAN check-digit engine, the bank       *)
(* registry and the validateAccount orchestration of class Nuban.          *)
(*                                                                         *)
(* A JavaScript string is a sequence of one-character strings, so that     *)
(* length, indexing, substring and padStart are computed as the code       *)
(* computes them.  A call that can throw yields Return(v) or Throw(e).     *)
(***************************************************************************)
EXTENDS Integers, Sequences, FiniteSets, TLC

VARIABLES
    banks,          \* static Nuban.banks
    weightedBanks,  \* static Nuban.weightedBanks
    instance,       \* the Nuban instance: NoInstance or [apiKey, paymentProvider]
    call,           \* the operation last invoked, with its arguments
    pc,             \* position of the operation in flight
    fetchCalls,     \* number of invocations of the global fetch
    response,       \* what the provider answered to the request in flight
    outcome         \* how the operation ended: returned/resolved value or error

vars == <<banks, weightedBanks, instance, call, pc, fetchCalls, response, outcome>>

\* ------------------------------------------------------------------------
\* Constants of the program
\* ------------------------------------------------------------------------
NUBAN_LENGTH == 10

NUBAN_SERIAL_CODE_LENGTH == 9

PAYSTACK == "PAYSTACK"

FLUTTERWAVE == "FLUTTERWAVE"

PaymentProvider == {PAYSTACK, FLUTTERWAVE}

\* ------------------------------------------------------------------------
\* Bounds of the model
\* ------------------------------------------------------------------------
\* serials are tried up to this many characters beyond the 9 of a serial
MaxExtra == 1

\* candidate lists passed to getPossibleNubanBanks have at most this length
MaxCandidates == 2

\* accounts passed with a candidate list vary this many low-order serial digits
FreeDigits == 4

\* account numbers given to validateAccount have up to NUBAN_LENGTH + MaxExtra
\* characters, bank codes up to this many
MaxCodeLen == 6

\* validateAccount is not started once fetch has been invoked this often
MaxFetchCalls == 2

\* the digits the nine serial positions of an input are drawn from
SerialDigits == {"0", "1"}

\* ------------------------------------------------------------------------
\* JavaScript strings and values
\* ------------------------------------------------------------------------
DigitChars == {"0", "1", "2", "3", "4", "5", "6", "7", "8", "9"}

\* Number(digit) for a one-character decimal string
Number(c) ==
    CASE c = "0" -> 0 [] c = "1" -> 1 [] c = "2" -> 2 [] c = "3" -> 3
      [] c = "4" -> 4 [] c = "5" -> 5 [] c = "6" -> 6 [] c = "7" -> 7
      [] c = "8" -> 8 [] c = "9" -> 9

\* String(n) for a number 0..9 is one character; 10 has two
String(n) ==
    CASE n = 0 -> <<"0">> [] n = 1 -> <<"1">> [] n = 2 -> <<"2">>
      [] n = 3 -> <<"3">> [] n = 4 -> <<"4">> [] n = 5 -> <<"5">>
      [] n = 6 -> <<"6">> [] n = 7 -> <<"7">> [] n = 8 -> <<"8">>
      [] n = 9 -> <<"9">> [] n = 10 -> <<"1", "0">>

Return(v) == [threw |-> FALSE, value |-> v]

Throw(e) == [threw |-> TRUE, error |-> e]

\* /^\d+$/.test(s)
AllDigits(s) == Len(s) >= 1 /\ \A i \in 1..Len(s) : s[i] \in DigitChars

\* s.padStart(targetLength, padString) for a one-character padString
padStart(s, targetLength, padString) ==
    IF Len(s) >= targetLength THEN s
    ELSE [i \in 1..(targetLength - Len(s)) |-> padString] \o s

\* s.substring(start, end) for 0 <= start <= end
substring(s, start, end) ==
    SubSeq(s, start + 1, IF end < Len(s) THEN end ELSE Len(s))

\* ------------------------------------------------------------------------
\* The registry
\* ------------------------------------------------------------------------
\* a record whose legacy code repeats its code
BankOldCodeFromCode(id, slug, name, code, oldCode, weight) ==
    [id |-> id, slug |-> slug, name |-> name, code |-> code,
     oldCode |-> code, weight |-> weight]

Bank(id, slug, name, code, oldCode, weight) ==
    [id |-> id, slug |-> slug, name |-> name, code |-> code,
     oldCode |-> oldCode, weight |-> weight]

WEIGHTED_NIGERIAN_BANKS == <<
    Bank(1, "access_bank", "ACCESS BANK",
         <<"0", "0", "0", "0", "1", "4">>, <<"0", "4", "4">>, 1),
    Bank(2, "access_diamond_bank", "ACCESS(DIAMOND) BANK",
         <<"0", "0", "0", "0", "1", "4">>, <<"0", "6", "3">>, 1),
    Bank(3, "citi_bank", "CITI BANK",
         <<"0", "0", "0", "0", "0", "9">>, <<"0", "2", "3">>, 1),
    Bank(4, "ecobank", "ECOBANK NIGERIA",
         <<"0", "0", "0", "0", "1", "0">>, <<"0", "5", "0">>, 1),
    Bank(5, "enterprise_bank", "ENTERPRISE BANK",
         <<"0", "0", "0", "0", "1", "9">>, <<"0", "8", "4">>, 1),
    Bank(6, "fidelity_bank", "FIDELITY BANK",
         <<"0", "0", "0", "0", "0", "7">>, <<"0", "7", "0">>, 1),
    Bank(7, "first_bank_of_nigeria", "FIRST BANK OF NIGERIA",
         <<"0", "0", "0", "0", "1", "6">>, <<"0", "1", "1">>, 1),
    Bank(8, "first_city_monument_bank", "FIRST CITY MONUMENT BANK",
         <<"0", "0", "0", "0", "0", "3">>, <<"2", "1", "4">>, 1),
    Bank(9, "globus_bank", "GLOBUS BANK",
         <<"0", "0", "0", "0", "2", "7">>, <<"1", "0", "3">>, 1),
    Bank(10, "guarantee_trust_bank", "GUARANTY TRUST BANK",
         <<"0", "0", "0", "0", "1", "3">>, <<"0", "5", "8">>, 1),
    Bank(11, "heritage_bank", "HERITAGE BANK",
         <<"0", "0", "0", "0", "2", "0">>, <<"0", "3", "0">>, 1),
    Bank(12, "jaiz_bank", "JAIZ BANK",
         <<"0", "0", "0", "0", "0", "6">>, <<"3", "0", "1">>, 1),
    Bank(13, "keystone_bank", "KEYSTONE BANK",
         <<"0", "0", "0", "0", "0", "2">>, <<"0", "8", "2">>, 1),
    Bank(14, "lotus_bank", "LOTUS BANK",
         <<"0", "0", "0", "0", "2", "9">>, <<"3", "0", "3">>, 1),
    Bank(15, "mainstreet_microfinance_bank", "MAINSTREET MICROFINANCE BANK",
         <<"0", "9", "0", "1", "7", "1">>, <<"0", "1", "4">>, 1),
    Bank(16, "optimus_bank", "OPTIMUS BANK",
         <<"0", "0", "0", "0", "3", "6">>, <<"1", "0", "7">>, 1),
    Bank(17, "parallex_bank", "PARALLEX BANK",
         <<"0", "0", "0", "0", "3", "0">>, <<"1", "0", "4">>, 1),
    Bank(18, "polaris_bank", "POLARIS BANK",
         <<"0", "0", "0", "0", "0", "8">>, <<"0", "7", "6">>, 1),
    Bank(19, "premium_trust_bank", "PREMIUM TRUST  BANK",
         <<"0", "0", "0", "0", "3", "1">>, <<"1", "0", "5">>, 1),
    Bank(20, "providus_bank", "PROVIDUS BANK",
         <<"0", "0", "0", "0", "2", "3">>, <<"1", "0", "1">>, 1),
    Bank(21, "signature_bank", "SIGNATURE BANK",
         <<"0", "0", "0", "0", "3", "4">>, <<"1", "0", "6">>, 1),
    Bank(22, "stanbic_ibtc_bank", "STANBIC IBTC BANK",
         <<"0", "0", "0", "0", "1", "2">>, <<"2", "2", "1">>, 1),
    Bank(23, "standard_chartered_bank", "STANDARD CHARTERED BANK",
         <<"0", "0", "0", "0", "2", "1">>, <<"0", "6", "8">>, 1),
    Bank(24, "sterling_bank", "STERLING BANK",
         <<"0", "0", "0", "0", "0", "1">>, <<"2", "3", "2">>, 1),
    Bank(25, "suntrust_bank", "SUNTRUST",
         <<"0", "0", "0", "0", "2", "2">>, <<"1", "0", "0">>, 1),
    Bank(26, "titan_trust_bank", "TITAN TRUST BANK",
         <<"0", "0", "0", "0", "2", "5">>, <<"1", "0", "2">>, 1),
    Bank(27, "union_bank", "UNION BANK",
         <<"0", "0", "0", "0", "1", "8">>, <<"0", "3", "2">>, 1),
    Bank(28, "united_bank_for_africa", "UNITED BANK FOR AFRICA",
         <<"0", "0", "0", "0", "0", "4">>, <<"0", "3", "3">>, 1),
    Bank(29, "unity_bank", "UNITY BANK",
         <<"0", "0", "0", "0", "1", "1">>, <<"2", "1", "5">>, 1),
    Bank(30, "wema_bank", "WEMA BANK",
         <<"0", "0", "0", "0", "1", "7">>, <<"0", "3", "5">>, 1),
    Bank(31, "zenith_bank", "ZENITH BANK",
         <<"0", "0", "0", "0", "1", "5">>, <<"0", "5", "7">>, 1)
>>

\* Nuban.banks is loaded from constants/banks: the full list, whose records
\* carry id, slug, name and code only
NIGERIAN_BANKS ==
    [i \in 1..Len(WEIGHTED_NIGERIAN_BANKS) |->
        [id |-> WEIGHTED_NIGERIAN_BANKS[i].id,
         slug |-> WEIGHTED_NIGERIAN_BANKS[i].slug,
         name |-> WEIGHTED_NIGERIAN_BANKS[i].name,
         code |-> WEIGHTED_NIGERIAN_BANKS[i].code]]

\* ------------------------------------------------------------------------
\* The NUBAN check-digit engine (static methods of Nuban)
\* ------------------------------------------------------------------------
SerialLengthError ==
    <<"Nuban serial code should not be more than ", NUBAN_SERIAL_CODE_LENGTH, " digits">>

\* the documented pattern 3,7,3 repeated, in place of the alternation
generateSeedTriples(length) ==
    [i \in 1..length |-> IF (i - 1) % 3 = 1 THEN 7 ELSE 3]

\* Array.from({ length }, (_, i) => (i % 2 ? 7 : 3)); i is the 0-based index
generateSeed(length) ==
    [i \in 1..length |-> IF (i - 1) % 2 # 0 THEN 7 ELSE 3]

\* the length test dropped: an over-long serial passes
validateNubanSerialCodeNoMax(nubanSerialCode) ==
    IF Len(nubanSerialCode) = 0 THEN Throw(SerialLengthError) ELSE Return(TRUE)

\* the emptiness test dropped: only an over-long serial fails
validateNubanSerialCodeNoEmpty(nubanSerialCode) ==
    IF Len(nubanSerialCode) > NUBAN_SERIAL_CODE_LENGTH
    THEN Throw(SerialLengthError)
    ELSE Return(TRUE)

\* !nubanSerialCode is true of the empty string
validateNubanSerialCode(nubanSerialCode) ==
    IF Len(nubanSerialCode) = 0 \/ Len(nubanSerialCode) > NUBAN_SERIAL_CODE_LENGTH
    THEN Throw(SerialLengthError)
    ELSE Return(TRUE)

\* crypto.split("").reduce((sum, digit, index) => sum + seed[index] * Number(digit), 0)
RECURSIVE reduce(_, _, _, _)
reduce(crypto, seed, index, sum) ==
    IF index > Len(crypto) THEN sum
    ELSE reduce(crypto, seed, index + 1, sum + seed[index] * Number(crypto[index]))

\* steps 3 and 4 without the final decrement
checkDigitOfModuloNoDecrement(modulo) == 10 - modulo

\* Step 3 and 4: return 10 - modulo - 1
checkDigitOfModulo(modulo) == 10 - modulo - 1

\* the serial is used as given, without padStart
paddedCodeUnpadded(nubanSerialCode) == nubanSerialCode

\* nubanSerialCode.padStart(NUBAN_SERIAL_CODE_LENGTH, "0")
paddedCode(nubanSerialCode) ==
    padStart(nubanSerialCode, NUBAN_SERIAL_CODE_LENGTH, "0")

generateCheckDigit(nubanSerialCode, bankCode) ==
    LET valid == validateNubanSerialCode(nubanSerialCode) IN
    IF valid.threw THEN valid
    ELSE LET crypto == bankCode \o paddedCode(nubanSerialCode)
             seed == generateSeed(Len(crypto))
             cryptoSum == reduce(crypto, seed, 1, 0)
             modulo == cryptoSum % 10
         IN  Return(checkDigitOfModulo(modulo))

\* Number(accountNumber[9]) is NaN when the account has no tenth character,
\* and NaN is strictly equal to nothing
strictEqualsCharAt(checkDigit, accountNumber, index) ==
    /\ index + 1 <= Len(accountNumber)
    /\ accountNumber[index + 1] \in DigitChars
    /\ checkDigit = Number(accountNumber[index + 1])

\* the claimed digit read one position early
isPossibleNubanBankOffByOne(accountNumber, bankCode) ==
    LET nubanSerialCode == substring(accountNumber, 0, 9)
        checkDigit == generateCheckDigit(nubanSerialCode, bankCode)
    IN  IF checkDigit.threw THEN checkDigit
        ELSE Return(strictEqualsCharAt(checkDigit.value, accountNumber, 8))

isPossibleNubanBank(accountNumber, bankCode) ==
    LET nubanSerialCode == substring(accountNumber, 0, 9)
        checkDigit == generateCheckDigit(nubanSerialCode, bankCode)
    IN  IF checkDigit.threw THEN checkDigit
        ELSE Return(strictEqualsCharAt(checkDigit.value, accountNumber, 9))

\* a filter that collects the matches in reverse
RECURSIVE filterReversed(_, _, _, _)
filterReversed(list, accountNumber, index, kept) ==
    IF index > Len(list) THEN Return(kept)
    ELSE LET test == isPossibleNubanBank(accountNumber, list[index].code) IN
         IF test.threw THEN test
         ELSE filterReversed(list, accountNumber, index + 1,
                             IF test.value THEN <<list[index]>> \o kept ELSE kept)

\* a filter that tests a record by its legacy code when it has one
RECURSIVE filterByOldCode(_, _, _, _)
filterByOldCode(list, accountNumber, index, kept) ==
    IF index > Len(list) THEN Return(kept)
    ELSE LET tested == IF "oldCode" \in DOMAIN list[index]
                       THEN list[index].oldCode ELSE list[index].code
             test == isPossibleNubanBank(accountNumber, tested)
         IN  IF test.threw THEN test
             ELSE filterByOldCode(list, accountNumber, index + 1,
                                  IF test.value THEN Append(kept, list[index])
                                  ELSE kept)

\* banks.filter((bank) => Nuban.isPossibleNubanBank(accountNumber, bank.code)):
\* the elements are tested in order, and the first test that throws ends it
RECURSIVE filter(_, _, _, _)
filter(list, accountNumber, index, kept) ==
    IF index > Len(list) THEN Return(kept)
    ELSE LET test == isPossibleNubanBank(accountNumber, list[index].code) IN
         IF test.threw THEN test
         ELSE filter(list, accountNumber, index + 1,
                     IF test.value THEN Append(kept, list[index]) ELSE kept)

getPossibleNubanBanks(accountNumber, list) ==
    filter(list, accountNumber, 1, <<>>)

\* a filter that removes the rejected elements from the list it is called on
receiverFilteredInPlace(list, result) ==
    IF result.threw THEN list ELSE result.value

\* Array.prototype.filter returns a new array: the list it is called on is
\* left as it was
receiverAfterFilter(list, result) == list

\* ------------------------------------------------------------------------
\* Registry lookup (static getBank)
\* ------------------------------------------------------------------------
SLUG == "SLUG"

CODE == "CODE"

OLD_CODE == "OLD_CODE"

BankProperty == {SLUG, CODE, OLD_CODE}

\* A looked-up value is a word (as slugs are) or a string of digits (as codes
\* are); a word equals no code and a digit string equals no slug.
Word(w) == [form |-> "word", text |-> w]

Digits(s) == [form |-> "digits", text |-> s]

\* bank[property] === value; a record without oldCode has it undefined
propertyEquals(bank, property, value) ==
    CASE property = SLUG -> value.form = "word" /\ bank.slug = value.text
      [] property = CODE -> value.form = "digits" /\ bank.code = value.text
      [] property = OLD_CODE ->
            /\ value.form = "digits"
            /\ "oldCode" \in DOMAIN bank
            /\ bank.oldCode = value.text

\* the first record of the list that matches, or undefined
RECURSIVE find(_, _, _, _)
find(list, property, value, index) ==
    IF index > Len(list) THEN [found |-> FALSE]
    ELSE IF propertyEquals(list[index], property, value)
         THEN [found |-> TRUE, bank |-> list[index]]
         ELSE find(list, property, value, index + 1)

\* getBank(value, property): OLD_CODE looks in weightedBanks only, SLUG and
\* CODE in banks
getBank(value, property, fullList, weightedList) ==
    Return(find(IF property = OLD_CODE THEN weightedList ELSE fullList,
                property, value, 1))

\* ------------------------------------------------------------------------
\* Inputs of the engine
\* ------------------------------------------------------------------------
Strings(alphabet, n) == [1..n -> alphabet]

SerialInputs ==
    UNION {Strings(SerialDigits, n) : n \in 0..(NUBAN_SERIAL_CODE_LENGTH + MaxExtra)}

\* ten-digit account numbers: a serial and any check digit
WellFormedAccounts ==
    {s \o <<d>> : s \in Strings(SerialDigits, NUBAN_SERIAL_CODE_LENGTH), d \in DigitChars}

AccountInputs == WellFormedAccounts \cup SerialInputs

\* accounts tried against candidate lists: short ones, and ten-digit ones whose
\* serial is zero but for its low-order digits
ListAccountInputs ==
    UNION {Strings(SerialDigits, n) : n \in 0..FreeDigits}
    \cup
    {padStart(s, NUBAN_SERIAL_CODE_LENGTH, "0") \o <<d>> :
        s \in Strings(SerialDigits, FreeDigits), d \in DigitChars}

\* the first records of the weighted list; the first two share code 000014
CandidatePool ==
    {WEIGHTED_NIGERIAN_BANKS[1], WEIGHTED_NIGERIAN_BANKS[2],
     WEIGHTED_NIGERIAN_BANKS[3]}

CandidateLists ==
    UNION {[1..n -> CandidatePool] : n \in 0..MaxCandidates}

\* canonical and legacy codes of the pool
EngineCodes ==
    {b.code : b \in CandidatePool} \cup
    {WEIGHTED_NIGERIAN_BANKS[1].oldCode, WEIGHTED_NIGERIAN_BANKS[3].oldCode}

\* values looked up: every slug, code and legacy code of the weighted list, the
\* README's and the specification's examples, and values no record carries
GetBankValues ==
    {Word(WEIGHTED_NIGERIAN_BANKS[i].slug) : i \in 1..Len(WEIGHTED_NIGERIAN_BANKS)}
    \cup {Digits(WEIGHTED_NIGERIAN_BANKS[i].code) : i \in 1..Len(WEIGHTED_NIGERIAN_BANKS)}
    \cup {Digits(WEIGHTED_NIGERIAN_BANKS[i].oldCode) :
            i \in 1..Len(WEIGHTED_NIGERIAN_BANKS)}
    \cup {Digits(<<"0", "0", "0", "0", "1", "3">>), Digits(<<"0", "5", "8">>),
          Digits(<<"9", "9", "9">>), Digits(<<"9", "9", "9", "9", "9", "9">>),
          Word("no_such_bank")}

NoInstance == [apiKey |-> "", paymentProvider |-> ""]

NoResponse == [state |-> "none"]

Pending == [threw |-> FALSE, value |-> "pending"]

\* text is the nubanSerialCode or accountNumber argument; banks is the list
\* argument, which counts only when banksGiven (the caller may omit it)
EngineCall(op, text, bankCode, list, roundTrip) ==
    [op |-> op, text |-> text, bankCode |-> bankCode, banks |-> list,
     banksGiven |-> TRUE, roundTrip |-> roundTrip]

DefaultBanksCall(accountNumber) ==
    [op |-> "getPossibleNubanBanks", text |-> accountNumber, bankCode |-> <<>>,
     banks |-> <<>>, banksGiven |-> FALSE, roundTrip |-> FALSE]

EngineInit ==
    /\ banks = NIGERIAN_BANKS
    /\ weightedBanks = WEIGHTED_NIGERIAN_BANKS
    /\ instance = NoInstance
    /\ \/ \E s \in SerialInputs, c \in EngineCodes :
             call = EngineCall("generateCheckDigit", s, c, <<>>, FALSE)
       \/ \E a \in AccountInputs, c \in EngineCodes :
             call = EngineCall("isPossibleNubanBank", a, c, <<>>, FALSE)
       \/ \E a \in ListAccountInputs,
                l \in CandidateLists \cup {WEIGHTED_NIGERIAN_BANKS} :
             call = EngineCall("getPossibleNubanBanks", a, <<>>, l, FALSE)
       \/ \E a \in ListAccountInputs : call = DefaultBanksCall(a)
       \/ \E v \in GetBankValues, p \in BankProperty :
             call = [op |-> "getBank", value |-> v, property |-> p]
    /\ pc = "called"
    /\ fetchCalls = 0
    /\ response = NoResponse
    /\ outcome = Pending

Untouched == UNCHANGED <<banks, weightedBanks, instance, fetchCalls, response>>

GenerateCheckDigit ==
    /\ pc = "called"
    /\ call.op = "generateCheckDigit"
    /\ outcome' = generateCheckDigit(call.text, call.bankCode)
    /\ pc' = "returned"
    /\ UNCHANGED call
    /\ Untouched

IsPossibleNubanBank ==
    /\ pc = "called"
    /\ call.op = "isPossibleNubanBank"
    /\ outcome' = isPossibleNubanBank(call.text, call.bankCode)
    /\ pc' = "returned"
    /\ UNCHANGED call
    /\ Untouched

\* banks: Bank[] = Nuban.banks
BanksArgument == IF call.banksGiven THEN call.banks ELSE banks

GetPossibleNubanBanks ==
    /\ pc = "called"
    /\ call.op = "getPossibleNubanBanks"
    /\ outcome' = getPossibleNubanBanks(call.text, BanksArgument)
    /\ pc' = "returned"
    /\ IF call.banksGiven
       THEN /\ call' = [call EXCEPT !.banks = receiverAfterFilter(@, outcome')]
            /\ UNCHANGED banks
       ELSE /\ banks' = receiverAfterFilter(banks, outcome')
            /\ UNCHANGED call
    /\ UNCHANGED <<weightedBanks, instance, fetchCalls, response>>

\* the caller appends the digit it got to the serial and asks the same bank
AppendCheckDigit ==
    /\ pc = "returned"
    /\ call.op = "generateCheckDigit"
    /\ ~outcome.threw
    /\ call' = EngineCall("isPossibleNubanBank",
                          call.text \o String(outcome.value), call.bankCode,
                          <<>>, TRUE)
    /\ pc' = "called"
    /\ outcome' = Pending
    /\ Untouched

GetBank ==
    /\ pc = "called"
    /\ call.op = "getBank"
    /\ outcome' = getBank(call.value, call.property, banks, weightedBanks)
    /\ pc' = "returned"
    /\ UNCHANGED call
    /\ Untouched

EngineNext ==
    \/ GenerateCheckDigit
    \/ IsPossibleNubanBank
    \/ GetPossibleNubanBanks
    \/ AppendCheckDigit
    \/ GetBank

SpecEngine == EngineInit /\ [][EngineNext]_vars

\* ------------------------------------------------------------------------
\* The instance methods: constructor and validateAccount
\* ------------------------------------------------------------------------
\* new Nuban(apiKey, paymentProvider); "" stands for a missing argument
constructor(apiKey, paymentProvider) ==
    IF apiKey = "" \/ paymentProvider = ""
    THEN Throw(<<"API Key and Payment Provider are required">>)
    ELSE Return([apiKey |-> apiKey, paymentProvider |-> paymentProvider])

\* the format test reduced to the length
validateNubanLengthOnly(accountNumber) ==
    Len(accountNumber) = NUBAN_LENGTH

\* Boolean(accountNumber?.length === NUBAN_LENGTH && /^\d+$/.test(accountNumber))
validateNuban(accountNumber) ==
    Len(accountNumber) = NUBAN_LENGTH /\ AllDigits(accountNumber)

\* Paystack taken to want the new 6-digit codes
validateBankCodeNewCodes(bankCode, paymentProvider) ==
    IF Len(bankCode) = 0 \/ ~AllDigits(bankCode) THEN FALSE
    ELSE CASE paymentProvider = PAYSTACK -> Len(bankCode) = 6
           [] paymentProvider = FLUTTERWAVE -> Len(bankCode) = 3 \/ Len(bankCode) = 6
           [] OTHER -> FALSE

\* a default branch that admits codes of 3 or 6 digits for any other provider
validateBankCodeLenientDefault(bankCode, paymentProvider) ==
    IF Len(bankCode) = 0 \/ ~AllDigits(bankCode) THEN FALSE
    ELSE CASE paymentProvider = PAYSTACK -> Len(bankCode) = 3
           [] paymentProvider = FLUTTERWAVE -> Len(bankCode) = 3 \/ Len(bankCode) = 6
           [] OTHER -> Len(bankCode) = 3 \/ Len(bankCode) = 6

\* validateBankCode(bankCode), reading this.paymentProvider
validateBankCode(bankCode, paymentProvider) ==
    IF Len(bankCode) = 0 \/ ~AllDigits(bankCode) THEN FALSE
    ELSE CASE paymentProvider = PAYSTACK -> Len(bankCode) = 3
           [] paymentProvider = FLUTTERWAVE -> Len(bankCode) = 3 \/ Len(bankCode) = 6
           [] OTHER -> FALSE

\* the lookup { PAYSTACK: paystackQuery, FLUTTERWAVE: flutterwaveQuery }[provider]
queryMethod(paymentProvider) ==
    CASE paymentProvider = PAYSTACK -> "paystackQuery"
      [] paymentProvider = FLUTTERWAVE -> "flutterwaveQuery"
      [] OTHER -> "undefined"

\* the request each query method hands to fetch
request(method, accountNumber, bankCode) ==
    IF method = "paystackQuery"
    THEN [method |-> "GET", url |-> "https://api.paystack.co/bank/resolve",
          account_number |-> accountNumber, bank_code |-> bankCode]
    ELSE [method |-> "POST", url |-> "https://api.flutterwave.com/v3/accounts/resolve",
          account_number |-> accountNumber, bank_code |-> bankCode]

\* the catch of paystackQuery / flutterwaveQuery: new Error(`<Provider> API error: ...`)
queryError(method, message) ==
    (IF method = "paystackQuery"
     THEN <<"Paystack API error: ">>
     ELSE <<"Flutterwave API error: ">>) \o message

\* the response handed back unchecked
validateApiResponseUnchecked(body) ==
    Return(IF body.kind = "object" THEN body.props ELSE [data |-> body.kind])

\* typeof response === "object" && response !== null &&
\* "status" in response && "message" in response
validateApiResponse(body) ==
    IF /\ body.kind = "object"
       /\ "status" \in DOMAIN body.props
       /\ "message" \in DOMAIN body.props
    THEN Return(body.props)
    ELSE Throw(<<"Invalid API response format">>)

\* a validateAccount without its try/catch: the error reaches the caller
validateAccountCatchRethrow(message) == Throw(message)

\* the catch of validateAccount
validateAccountCatch(message) ==
    Return([status |-> FALSE,
            message |-> <<"Account validation failed - ">> \o message])

\* an orchestration that runs the check-digit test of the account number against
\* the bank code after the two format validations, before it picks the query
validateAccountStartWithEngine(accountNumber, bankCode, paymentProvider) ==
    IF ~validateNuban(accountNumber)
    THEN [query |-> "none",
          ran |-> <<"validateNuban">>,
          result |-> [status |-> FALSE,
                      message |-> <<"Invalid account number, digits should be exactly 10">>]]
    ELSE IF ~validateBankCode(bankCode, paymentProvider)
    THEN [query |-> "none",
          ran |-> <<"validateNuban", "validateBankCode">>,
          result |-> [status |-> FALSE,
                      message |-> <<"Invalid bank code for payment provider - ",
                                    paymentProvider>>]]
    ELSE IF ~isPossibleNubanBank(accountNumber, bankCode).value
    THEN [query |-> "none",
          ran |-> <<"validateNuban", "validateBankCode", "isPossibleNubanBank">>,
          result |-> [status |-> FALSE,
                      message |-> <<"Invalid account number for bank code">>]]
    ELSE [query |-> queryMethod(paymentProvider),
          ran |-> <<"validateNuban", "validateBankCode", "isPossibleNubanBank",
                    queryMethod(paymentProvider)>>]

\* validateAccount up to its first await: the result it returns at once, or the
\* query method it calls; ran lists the methods of Nuban it has called, in order
validateAccountStart(accountNumber, bankCode, paymentProvider) ==
    IF ~validateNuban(accountNumber)
    THEN [query |-> "none",
          ran |-> <<"validateNuban">>,
          result |-> [status |-> FALSE,
                      message |-> <<"Invalid account number, digits should be exactly 10">>]]
    ELSE IF ~validateBankCode(bankCode, paymentProvider)
    THEN [query |-> "none",
          ran |-> <<"validateNuban", "validateBankCode">>,
          result |-> [status |-> FALSE,
                      message |-> <<"Invalid bank code for payment provider - ",
                                    paymentProvider>>]]
    ELSE IF queryMethod(paymentProvider) = "undefined"
    THEN [query |-> "none",
          ran |-> <<"validateNuban", "validateBankCode">>,
          result |-> [status |-> FALSE,
                      message |-> <<"Unsupported payment provider">>]]
    ELSE [query |-> queryMethod(paymentProvider),
          ran |-> <<"validateNuban", "validateBankCode",
                    queryMethod(paymentProvider)>>]

\* s.toUpperCase(), for the letters of the brands
toUpperCase(s) ==
    [i \in 1..Len(s) |->
        CASE s[i] = "a" -> "A" [] s[i] = "c" -> "C" [] s[i] = "d" -> "D"
          [] s[i] = "e" -> "E" [] s[i] = "i" -> "I" [] s[i] = "m" -> "M"
          [] s[i] = "r" -> "R" [] s[i] = "s" -> "S" [] s[i] = "t" -> "T"
          [] s[i] = "v" -> "V" [] OTHER -> s[i]]

\* s.split(" "): the pieces between the spaces, collected left to right
RECURSIVE split(_, _, _, _)
split(s, index, piece, pieces) ==
    IF index > Len(s) THEN Append(pieces, piece)
    ELSE IF s[index] = " "
         THEN split(s, index + 1, <<>>, Append(pieces, piece))
         ELSE split(s, index + 1, Append(piece, s[index]), pieces)

\* parts.join(" ") from the given index on
RECURSIVE join(_, _)
join(parts, index) ==
    IF index > Len(parts) THEN <<>>
    ELSE IF index = Len(parts) THEN parts[index]
         ELSE parts[index] \o <<" ">> \o join(parts, index + 1)

\* an element a destructuring finds missing
Undefined == <<"undefined">>

\* /^\d{6}$/ on firstSixDigits
validCardBin(firstSixDigits) ==
    Len(firstSixDigits) = 6 /\ AllDigits(firstSixDigits)

TypeError == <<"TypeError: cannot read properties of undefined">>

\* formatFlutterwaveCardBinResponse(response)
formatFlutterwaveCardBinResponse(body) ==
    IF \/ body.kind # "object"
       \/ "data" \notin DOMAIN body.props
       \/ ~({"issuing_country", "issuer_info"} \subseteq DOMAIN body.props.data)
    THEN Throw(TypeError)
    ELSE LET data == body.props.data
             country == split(data.issuing_country, 1, <<>>, <<>>)
             issuer == split(data.issuer_info, 1, <<>>, <<>>)
         IN  Return([body.props EXCEPT !.data =
                 [bin |-> IF "bin" \in DOMAIN data THEN data.bin ELSE Undefined,
                  country_code |-> IF Len(country) >= 2 THEN country[2] ELSE Undefined,
                  country_name |-> country[1],
                  card_type |-> IF "card_type" \in DOMAIN data
                                THEN data.card_type ELSE Undefined,
                  brand |-> issuer[1],
                  bank |-> join(issuer, 2)]])

\* { ...resolvedResponse, data: { ...resolvedResponse.data,
\*                                brand: resolvedResponse.data.brand.toUpperCase() } }
upperCaseBrand(body) ==
    IF \/ body.kind # "object"
       \/ "data" \notin DOMAIN body.props
       \/ "brand" \notin DOMAIN body.props.data
    THEN Throw(TypeError)
    ELSE Return([body.props EXCEPT !.data =
                    [body.props.data EXCEPT !.brand = toUpperCase(@)]])

\* the value resolveCardBin returns once the body is read
cardBinResult(body, paymentProvider) ==
    IF paymentProvider = FLUTTERWAVE
    THEN formatFlutterwaveCardBinResponse(body)
    ELSE upperCaseBrand(body)

\* the catch of resolveCardBin
resolveCardBinCatch(message) ==
    Return([status |-> FALSE,
            message |-> <<"Card bin resolution failed - ">> \o message])

\* `${CARD_BIN_URL[this.paymentProvider]}${firstSixDigits}`
cardBinRequest(paymentProvider, firstSixDigits) ==
    [method |-> "GET",
     url |-> CASE paymentProvider = PAYSTACK -> "https://api.paystack.co/decision/bin/"
               [] paymentProvider = FLUTTERWAVE ->
                    "https://api.flutterwave.com/v3/card-bins/"
               [] OTHER -> "undefined",
     bin |-> firstSixDigits]

\* ------------------------------------------------------------------------
\* Inputs of the instance methods
\* ------------------------------------------------------------------------
ApiKeyInputs == {"", "live_api_secret"}

\* "" is a missing provider, MONNIFY a value outside the enum
ProviderInputs == {"", PAYSTACK, FLUTTERWAVE, "MONNIFY"}

\* "0123456789012..." cut to n characters
DigitRun(n) == [i \in 1..n |-> String((i - 1) % 10)[1]]

\* the strings tried: runs of digits, and the same ending in a letter
TextInputs(maxLen) ==
    {DigitRun(n) : n \in 0..maxLen}
    \cup {[DigitRun(n) EXCEPT ![n] = "x"] : n \in 1..maxLen}

AccountNumberInputs == TextInputs(NUBAN_LENGTH + MaxExtra)

BankCodeInputs == TextInputs(MaxCodeLen)

\* what fetch may resolve to
HttpResponses ==
    {[ok |-> TRUE, status |-> 200], [ok |-> FALSE, status |-> 400],
     [ok |-> FALSE, status |-> 500]}

\* what a rejected fetch or json() carries
NetworkErrors == {<<"API Error">>, <<"Unexpected token < in JSON">>}

AccountData ==
    [account_number |-> "0123456789", account_name |-> "John Doe", bank_code |-> "057"]

\* what response.json() may resolve to
JsonBodies ==
    {[kind |-> "null"], [kind |-> "string"]}
    \cup
    {[kind |-> "object", props |-> p] :
        p \in {[status |-> TRUE, message |-> "Account details fetched",
                data |-> AccountData],
               [status |-> FALSE, message |-> "Could not resolve account name"],
               [status |-> TRUE],
               [message |-> "Account details fetched"],
               [data |-> AccountData]}}

\* "visa", "NIGERIA NG", "VISA Access Bank" as strings
Chars_visa == <<"v", "i", "s", "a">>

Chars_NIGERIA_NG == <<"N", "I", "G", "E", "R", "I", "A", " ", "N", "G">>

Chars_VISA_Access_Bank ==
    <<"V", "I", "S", "A", " ", "A", "c", "c", "e", "s", "s", " ", "B", "a", "n", "k">>

\* what response.json() may resolve to for a card BIN: Paystack's shape,
\* Flutterwave's shape, a body without data, and null
CardBinBodies ==
    {[kind |-> "null"]}
    \cup
    {[kind |-> "object", props |-> p] :
        p \in {[status |-> TRUE, message |-> "Bin resolved",
                data |-> [bin |-> "123456", brand |-> Chars_visa,
                          card_type |-> "DEBIT", bank |-> "Access Bank"]],
               [status |-> TRUE, message |-> "success",
                data |-> [issuing_country |-> Chars_NIGERIA_NG, bin |-> "123456",
                          card_type |-> "DEBIT",
                          issuer_info |-> Chars_VISA_Access_Bank]],
               [status |-> FALSE, message |-> "Bin not found"]}}

\* account numbers handed to getPossibleNubanBanks between the other calls
DigitAccountInputs ==
    {DigitRun(n) : n \in (NUBAN_LENGTH - 1)..(NUBAN_LENGTH + MaxExtra)}

\* a list of the caller's own
CustomLists ==
    {<<WEIGHTED_NIGERIAN_BANKS[31], WEIGHTED_NIGERIAN_BANKS[1]>>,
     <<WEIGHTED_NIGERIAN_BANKS[2], WEIGHTED_NIGERIAN_BANKS[3],
       WEIGHTED_NIGERIAN_BANKS[1]>>}

Init ==
    /\ banks = NIGERIAN_BANKS
    /\ weightedBanks = WEIGHTED_NIGERIAN_BANKS
    /\ instance = NoInstance
    /\ call = [op |-> "none"]
    /\ pc = "idle"
    /\ fetchCalls = 0
    /\ response = NoResponse
    /\ outcome = Pending

Idle == pc \in {"idle", "returned", "settled"}

Construct(apiKey, paymentProvider) ==
    /\ Idle
    /\ call' = [op |-> "constructor", apiKey |-> apiKey,
                paymentProvider |-> paymentProvider]
    /\ outcome' = constructor(apiKey, paymentProvider)
    /\ instance' = IF outcome'.threw THEN instance ELSE outcome'.value
    /\ pc' = "returned"
    /\ response' = NoResponse
    /\ UNCHANGED <<banks, weightedBanks, fetchCalls>>

\* the call runs to its first await: it settles at once or invokes fetch
ValidateAccount(accountNumber, bankCode) ==
    /\ Idle
    /\ instance # NoInstance
    /\ fetchCalls < MaxFetchCalls
    /\ LET start == validateAccountStart(accountNumber, bankCode,
                                         instance.paymentProvider)
       IN  /\ call' = [op |-> "validateAccount", accountNumber |-> accountNumber,
                       bankCode |-> bankCode, fetchBefore |-> fetchCalls,
                       ran |-> start.ran]
           /\ IF start.query = "none"
              THEN /\ pc' = "settled"
                   /\ outcome' = Return(start.result)
                   /\ response' = NoResponse
                   /\ UNCHANGED fetchCalls
              ELSE /\ pc' = "awaitFetch"
                   /\ outcome' = Pending
                   /\ fetchCalls' = fetchCalls + 1
                   /\ response' = [state |-> "requested", query |-> start.query,
                                   request |-> request(start.query, accountNumber,
                                                       bankCode)]
    /\ UNCHANGED <<banks, weightedBanks, instance>>

\* fetch rejects: the query method's catch wraps it, validateAccount's catch
\* turns it into a result
FetchRejects(error) ==
    /\ pc = "awaitFetch"
    /\ response' = [state |-> "fetchRejected", query |-> response.query,
                    error |-> error]
    /\ outcome' = validateAccountCatch(queryError(response.query, error))
    /\ pc' = "settled"
    /\ UNCHANGED <<banks, weightedBanks, instance, call, fetchCalls>>

\* fetch resolves: a response that is not ok is thrown as an HTTP error
FetchResolves(http) ==
    /\ pc = "awaitFetch"
    /\ response' = [state |-> "received", query |-> response.query, http |-> http]
    /\ IF ~http.ok
       THEN /\ outcome' = validateAccountCatch(
                              queryError(response.query,
                                         <<"HTTP error! status: ", http.status>>))
            /\ pc' = "settled"
       ELSE /\ outcome' = Pending
            /\ pc' = "awaitJson"
    /\ UNCHANGED <<banks, weightedBanks, instance, call, fetchCalls>>

\* response.json() resolves and validateApiResponse decides
JsonResolves(body) ==
    /\ pc = "awaitJson"
    /\ response' = [state |-> "parsed", query |-> response.query,
                    http |-> response.http, body |-> body]
    /\ LET checked == validateApiResponse(body)
       IN  outcome' = IF checked.threw
                      THEN validateAccountCatch(queryError(response.query,
                                                           checked.error))
                      ELSE checked
    /\ pc' = "settled"
    /\ UNCHANGED <<banks, weightedBanks, instance, call, fetchCalls>>

\* response.json() rejects
JsonRejects(error) ==
    /\ pc = "awaitJson"
    /\ response' = [state |-> "jsonRejected", query |-> response.query,
                    http |-> response.http, error |-> error]
    /\ outcome' = validateAccountCatch(queryError(response.query, error))
    /\ pc' = "settled"
    /\ UNCHANGED <<banks, weightedBanks, instance, call, fetchCalls>>

\* resolveCardBin up to its first await: an invalid BIN returns at once,
\* otherwise fetch is invoked
ResolveCardBin(firstSixDigits) ==
    /\ Idle
    /\ instance # NoInstance
    /\ fetchCalls < MaxFetchCalls
    /\ call' = [op |-> "resolveCardBin", firstSixDigits |-> firstSixDigits,
                fetchBefore |-> fetchCalls]
    /\ IF ~validCardBin(firstSixDigits)
       THEN /\ pc' = "settled"
            /\ outcome' = Return([status |-> FALSE,
                                  message |-> <<"Invalid card BIN - must be exactly 6 digits">>])
            /\ response' = NoResponse
            /\ UNCHANGED fetchCalls
       ELSE /\ pc' = "awaitBinFetch"
            /\ outcome' = Pending
            /\ fetchCalls' = fetchCalls + 1
            /\ response' = [state |-> "requested",
                            request |-> cardBinRequest(instance.paymentProvider,
                                                       firstSixDigits)]
    /\ UNCHANGED <<banks, weightedBanks, instance>>

CardBinFetchRejects(error) ==
    /\ pc = "awaitBinFetch"
    /\ response' = [state |-> "fetchRejected", error |-> error]
    /\ outcome' = resolveCardBinCatch(error)
    /\ pc' = "settled"
    /\ UNCHANGED <<banks, weightedBanks, instance, call, fetchCalls>>

CardBinFetchResolves(http) ==
    /\ pc = "awaitBinFetch"
    /\ response' = [state |-> "received", http |-> http]
    /\ IF ~http.ok
       THEN /\ outcome' = resolveCardBinCatch(<<"HTTP error! status: ", http.status>>)
            /\ pc' = "settled"
       ELSE /\ outcome' = Pending
            /\ pc' = "awaitBinJson"
    /\ UNCHANGED <<banks, weightedBanks, instance, call, fetchCalls>>

CardBinJsonResolves(body) ==
    /\ pc = "awaitBinJson"
    /\ response' = [state |-> "parsed", http |-> response.http, body |-> body]
    /\ LET shaped == cardBinResult(body, instance.paymentProvider)
       IN  outcome' = IF shaped.threw THEN resolveCardBinCatch(shaped.error)
                      ELSE shaped
    /\ pc' = "settled"
    /\ UNCHANGED <<banks, weightedBanks, instance, call, fetchCalls>>

CardBinJsonRejects(error) ==
    /\ pc = "awaitBinJson"
    /\ response' = [state |-> "jsonRejected", http |-> response.http,
                    error |-> error]
    /\ outcome' = resolveCardBinCatch(error)
    /\ pc' = "settled"
    /\ UNCHANGED <<banks, weightedBanks, instance, call, fetchCalls>>

\* the static getPossibleNubanBanks called between the other calls; it is
\* synchronous and returns within the step.  The candidates are Nuban.banks
\* (argument omitted), the static Nuban.weightedBanks itself, or the caller's
\* own list.
PossibleNubanBanks(accountNumber, source, list) ==
    /\ Idle
    /\ LET given == CASE source = "banks" -> banks
                      [] source = "weightedBanks" -> weightedBanks
                      [] OTHER -> list
           result == getPossibleNubanBanks(accountNumber, given)
           after == receiverAfterFilter(given, result)
       IN  /\ outcome' = result
           /\ banks' = IF source = "banks" THEN after ELSE banks
           /\ weightedBanks' = IF source = "weightedBanks" THEN after
                               ELSE weightedBanks
           /\ call' = [op |-> "getPossibleNubanBanks", text |-> accountNumber,
                       source |-> source, passed |-> given, banks |-> after]
    /\ pc' = "returned"
    /\ response' = NoResponse
    /\ UNCHANGED <<instance, fetchCalls>>

Next ==
    \/ \E k \in ApiKeyInputs, p \in ProviderInputs : Construct(k, p)
    \/ \E b \in BankCodeInputs : ResolveCardBin(b)
    \/ \E e \in NetworkErrors : CardBinFetchRejects(e)
    \/ \E h \in HttpResponses : CardBinFetchResolves(h)
    \/ \E b \in CardBinBodies : CardBinJsonResolves(b)
    \/ \E e \in NetworkErrors : CardBinJsonRejects(e)
    \/ \E a \in DigitAccountInputs : PossibleNubanBanks(a, "banks", <<>>)
    \/ \E a \in DigitAccountInputs : PossibleNubanBanks(a, "weightedBanks", <<>>)
    \/ \E a \in DigitAccountInputs, l \in CustomLists :
          PossibleNubanBanks(a, "custom", l)
    \/ \E a \in AccountNumberInputs, c \in BankCodeInputs : ValidateAccount(a, c)
    \/ \E e \in NetworkErrors : FetchRejects(e)
    \/ \E h \in HttpResponses : FetchResolves(h)
    \/ \E b \in JsonBodies : JsonResolves(b)
    \/ \E e \in NetworkErrors : JsonRejects(e)

Spec == Init /\ [][Next]_vars

\* ------------------------------------------------------------------------
\* Properties of the check-digit engine
\* ------------------------------------------------------------------------
GenerateReturned == pc = "returned" /\ call.op = "generateCheckDigit"

IsPossibleReturned == pc = "returned" /\ call.op = "isPossibleNubanBank"

GetPossibleReturned == pc = "returned" /\ call.op = "getPossibleNubanBanks"

\* sum of digit[i] * weight[i], weight 3 at even 0-based positions, 7 at odd
RECURSIVE C1_WeightedSum(_, _)
C1_WeightedSum(digits, i) ==
    IF i > Len(digits) THEN 0
    ELSE (IF (i - 1) % 2 = 0 THEN 3 ELSE 7) * Number(digits[i])
         + C1_WeightedSum(digits, i + 1)

C2_CheckDigitRange ==
    (GenerateReturned /\ Len(call.text) = 9 /\ Len(call.bankCode) = 6)
        => /\ ~outcome.threw
           /\ outcome.value \in 0..9

\* the weighted sum is a multiple of 10, where 10 - modulo would be 10
C2_Witness ==
    /\ GenerateReturned
    /\ Len(call.text) = 9
    /\ Len(call.bankCode) = 6
    /\ ~outcome.threw
    /\ outcome.value = 9

\* C3: round trip: the account number made of a 9-digit serial S and the digit
\* generateCheckDigit(S, B) satisfies isPossibleNubanBank(account, B), for any
\* bank code B.
C3_RoundTrip ==
    (IsPossibleReturned /\ call.roundTrip /\ Len(call.text) = 10)
        => /\ ~outcome.threw
           /\ outcome.value = TRUE

C3_Witness ==
    /\ IsPossibleReturned
    /\ call.roundTrip
    /\ Len(call.text) = 10
    /\ Len(call.bankCode) = 3
    /\ ~outcome.threw
    /\ outcome.value = TRUE

C4_Matching(serial, bankCode) ==
    {d \in DigitChars :
        LET r == isPossibleNubanBank(serial \o <<d>>, bankCode)
        IN  ~r.threw /\ r.value}

\* C4: for a fixed 9-digit serial S and bank code B exactly one digit d in 0..9
\* makes isPossibleNubanBank(S + d, B) true; any other digit makes it false.
C4_UniqueCheckDigit ==
    (IsPossibleReturned /\ Len(call.text) = 10)
        => LET matching == C4_Matching(SubSeq(call.text, 1, 9), call.bankCode)
           IN  /\ Cardinality(matching) = 1
               /\ ~outcome.threw
               /\ outcome.value <=> (call.text[10] \in matching)

\* an account whose last digit is not the check digit is refused
C4_Witness ==
    /\ IsPossibleReturned
    /\ Len(call.text) = 10
    /\ ~call.roundTrip
    /\ ~outcome.threw
    /\ outcome.value = FALSE

\* positions of the candidates whose code passes the check for the account
C5_Matches(accountNumber, list) ==
    {i \in 1..Len(list) :
        LET r == isPossibleNubanBank(accountNumber, list[i].code)
        IN  ~r.threw /\ r.value}

\* the k-th smallest member of a set of positions
C5_Nth(positions, k) ==
    CHOOSE i \in positions : Cardinality({j \in positions : j <= i}) = k

\* C5: for a 10-digit account number and any candidate sequence,
\* getPossibleNubanBanks returns exactly the subsequence of the candidates whose
\* code satisfies isPossibleNubanBank: nothing outside the input, every match,
\* in the input's order.
C5_FilterIsSubsequence ==
    (GetPossibleReturned /\ Len(call.text) = 10)
        => LET matches == C5_Matches(call.text, BanksArgument)
           IN  /\ ~outcome.threw
               /\ Len(outcome.value) = Cardinality(matches)
               /\ \A k \in 1..Len(outcome.value) :
                     outcome.value[k] = BanksArgument[C5_Nth(matches, k)]

\* two different candidates kept, a list given by the caller
C5_Witness ==
    /\ GetPossibleReturned
    /\ Len(call.text) = 10
    /\ call.banksGiven
    /\ Len(call.banks) = 2
    /\ ~outcome.threw
    /\ Len(outcome.value) = 2
    /\ outcome.value[1] # outcome.value[2]

\* C6: generateCheckDigit accepts a serial of exactly 9 digits and fails with the
\* serial-length error for every serial of 10 or more digits; an over-long
\* serial is never truncated to compute a digit.
C6_SerialLengthBoundary ==
    GenerateReturned
        => /\ Len(call.text) = 9 => ~outcome.threw
           /\ Len(call.text) >= 10
                => (outcome.threw /\ outcome.error = SerialLengthError)

C6_Witness ==
    /\ GenerateReturned
    /\ Len(call.text) = 10
    /\ outcome.threw

C7_ZeroPadded(serial) ==
    [i \in 1..(9 - Len(serial)) |-> "0"] \o serial

C7_SameAsPadded ==
    /\ ~outcome.threw
    /\ LET padded == generateCheckDigit(C7_ZeroPadded(call.text), call.bankCode)
       IN  ~padded.threw /\ outcome.value = padded.value

\* C7 as stated: every serial of length 0 through 9 is accepted and gets the
\* digit of the serial left-padded with zeros to 9 digits; the failure occurs
\* only when the length exceeds 9.
C7_Original ==
    GenerateReturned
        => /\ Len(call.text) <= 9 => C7_SameAsPadded
           /\ outcome.threw => Len(call.text) > 9

\* C7: every serial of length 1 through 9 is accepted and gets the digit of the
\* serial left-padded with zeros to 9 digits; generateCheckDigit fails, with the
\* serial-length error, exactly when the serial is empty or longer than 9.
C7_PaddedUnlessEmpty ==
    GenerateReturned
        => /\ Len(call.text) \in 1..9 => C7_SameAsPadded
           /\ outcome.threw <=> (Len(call.text) = 0 \/ Len(call.text) > 9)
           /\ outcome.threw => outcome.error = SerialLengthError

\* a serial shorter than 9 digits whose padding shifts the weights
C7_Witness ==
    /\ GenerateReturned
    /\ call.text = <<"1", "1", "0", "1">>
    /\ ~outcome.threw

\* ------------------------------------------------------------------------
\* Properties of validateAccount
\* ------------------------------------------------------------------------
ValidateCalled == call.op = "validateAccount"

ValidateSettled == ValidateCalled /\ pc = "settled"

\* exactly 10 characters, all of them digits
C8_TenDigits(accountNumber) ==
    /\ Len(accountNumber) = 10
    /\ \A i \in 1..Len(accountNumber) : accountNumber[i] \in DigitChars

\* C8: validateAccount with an account number that is not exactly 10 characters,
\* all digits, resolves to a result with status false without any call to the
\* payment provider: fetch is not invoked on that path.
C8_MalformedAccountRejectedOffline ==
    (ValidateCalled /\ ~C8_TenDigits(call.accountNumber))
        => /\ pc = "settled"
           /\ ~outcome.threw
           /\ outcome.value.status = FALSE
           /\ fetchCalls = call.fetchBefore
           /\ response = NoResponse

\* the test's call: validateAccount("01234567", ...) on a Paystack instance
C8_Witness ==
    /\ ValidateSettled
    /\ instance.paymentProvider = PAYSTACK
    /\ call.accountNumber = <<"0", "1", "2", "3", "4", "5", "6", "7">>
    /\ Len(call.bankCode) = 6
    /\ outcome.value.status = FALSE

\* the provider call failed: fetch or json() rejected, the response was not ok,
\* or the body is no object carrying status and message
C9_ProviderFailed ==
    \/ response.state \in {"fetchRejected", "jsonRejected"}
    \/ response.state = "received" /\ ~response.http.ok
    \/ /\ response.state = "parsed"
       /\ \/ response.body.kind # "object"
          \/ ~({"status", "message"} \subseteq DOMAIN response.body.props)

\* C9: validateAccount never rejects: whatever the provider call does (fetch
\* rejects, the response is not ok, the body lacks status or message) the promise
\* resolves, and to a result whose status is false; no error reaches the caller.
C9_NeverRejects ==
    ValidateSettled
        => /\ ~outcome.threw
           /\ C9_ProviderFailed => outcome.value.status = FALSE

\* an ok response whose body has a status but no message
C9_Witness ==
    /\ ValidateSettled
    /\ response.state = "parsed"
    /\ response.body.kind = "object"
    /\ DOMAIN response.body.props = {"status"}
    /\ ~outcome.threw
    /\ outcome.value.status = FALSE

\* a bank code the provider admits: all digits, 3 of them for PAYSTACK, 3 or 6
\* for FLUTTERWAVE
C10_CodeValidFor(bankCode, paymentProvider) ==
    /\ \A i \in 1..Len(bankCode) : bankCode[i] \in DigitChars
    /\ \/ paymentProvider = PAYSTACK /\ Len(bankCode) = 3
       \/ paymentProvider = FLUTTERWAVE /\ Len(bankCode) \in {3, 6}

\* C10: for an account number of valid format and a bank code valid for the
\* configured provider, one validateAccount call invokes fetch exactly once (no
\* retry after a failure, no second request after a success), and when the
\* response is ok and its body carries status and message the call returns that
\* body.
C10_SingleRequest ==
    (/\ ValidateCalled
     /\ C8_TenDigits(call.accountNumber)
     /\ C10_CodeValidFor(call.bankCode, instance.paymentProvider))
        => /\ fetchCalls = call.fetchBefore + 1
           /\ (pc = "settled" /\ response.state = "parsed" /\ ~C9_ProviderFailed)
                => (~outcome.threw /\ outcome.value = response.body.props)

\* the provider reported status true and the call returned it, after one request
C10_Witness ==
    /\ ValidateSettled
    /\ instance.paymentProvider = PAYSTACK
    /\ Len(call.bankCode) = 3
    /\ response.state = "parsed"
    /\ fetchCalls = call.fetchBefore + 1
    /\ ~outcome.threw
    /\ outcome.value.status = TRUE
    /\ "data" \in DOMAIN outcome.value

\* C11: bank-code admission depends on the provider.  For an account number of
\* valid format: with PAYSTACK only all-digit codes of exactly 3 digits are
\* admitted (a 6-digit code is rejected), with FLUTTERWAVE all-digit codes of
\* exactly 3 or 6 digits; an admitted code leads to the provider call, every
\* other code to status false with the message 'Invalid bank code for payment
\* provider - <provider>' and no provider call.
C11_BankCodeAdmission ==
    (ValidateCalled /\ C8_TenDigits(call.accountNumber))
        => IF C10_CodeValidFor(call.bankCode, instance.paymentProvider)
           THEN response.state # "none"
           ELSE /\ pc = "settled"
                /\ ~outcome.threw
                /\ outcome.value.status = FALSE
                /\ outcome.value.message =
                       <<"Invalid bank code for payment provider - ",
                         instance.paymentProvider>>
                /\ fetchCalls = call.fetchBefore
                /\ response = NoResponse

\* a Paystack instance refuses a 6-digit code for a well-formed account
C11_Witness ==
    /\ ValidateSettled
    /\ instance.paymentProvider = PAYSTACK
    /\ C8_TenDigits(call.accountNumber)
    /\ call.bankCode = <<"0", "1", "2", "3", "4", "5">>
    /\ outcome.value.message =
           <<"Invalid bank code for payment provider - ", PAYSTACK>>
    /\ fetchCalls = call.fetchBefore

\* ------------------------------------------------------------------------
\* Properties of the registry
\* ------------------------------------------------------------------------
GetBankReturned == pc = "returned" /\ call.op = "getBank"

\* positions of the records of a list that carry the value on the property
C12_Positions(list, property, value) ==
    {i \in 1..Len(list) :
        CASE property = SLUG ->
                value.form = "word" /\ list[i].slug = value.text
          [] property = CODE ->
                value.form = "digits" /\ list[i].code = value.text
          [] property = OLD_CODE ->
                /\ value.form = "digits"
                /\ "oldCode" \in DOMAIN list[i]
                /\ list[i].oldCode = value.text}

C12_LegacyCodeOfGTB == Digits(<<"0", "5", "8">>)

C13_DecimalDigits(s, n) ==
    Len(s) = n /\ \A k \in 1..Len(s) : s[k] \in DigitChars

C13_WellFormedList(list) ==
    /\ \A i \in 1..Len(list) :
          /\ C13_DecimalDigits(list[i].code, 6)
          /\ "oldCode" \in DOMAIN list[i] => C13_DecimalDigits(list[i].oldCode, 3)
    /\ \A i, j \in 1..Len(list) :
          i # j => (list[i].id # list[j].id /\ list[i].slug # list[j].slug)

\* C13: registry data invariant: every record's code is exactly 6 decimal
\* digits, every oldCode that is present is exactly 3 decimal digits, and ids
\* and slugs are unique within a list (records may share a code); it holds of
\* every entry of WEIGHTED_NIGERIAN_BANKS.
C13_RegistryWellFormed ==
    /\ C13_WellFormedList(weightedBanks)
    /\ C13_WellFormedList(banks)
    /\ \A i \in 1..Len(weightedBanks) : "oldCode" \in DOMAIN weightedBanks[i]

\* after a lookup, the weighted list holds two records that share a code
C13_Witness ==
    /\ GetBankReturned
    /\ Len(weightedBanks) = 31
    /\ \E i, j \in 1..Len(weightedBanks) :
          /\ i # j
          /\ weightedBanks[i].code = weightedBanks[j].code
          /\ weightedBanks[i].oldCode # weightedBanks[j].oldCode

\* ------------------------------------------------------------------------
\* The registry as a frame
\* ------------------------------------------------------------------------
\* the list a static call was given, as it was at load time
C14_LoadTimeList ==
    CASE call.source = "banks" -> NIGERIAN_BANKS
      [] call.source = "weightedBanks" -> WEIGHTED_NIGERIAN_BANKS
      [] OTHER -> call.passed

C15_ProviderReached ==
    ValidateCalled /\ fetchCalls > call.fetchBefore

C15_Ran(method) == \E i \in 1..Len(call.ran) : call.ran[i] = method

\* C15 as stated: on every execution of validateAccount that reaches the
\* provider call, the check-digit test of the account number against the bank
\* code has been evaluated before it.
C15_Original ==
    C15_ProviderReached => C15_Ran("isPossibleNubanBank")

\* C15, amended: before the provider call validateAccount runs the format
\* validation of the account number and then that of the bank code, and
\* nothing else: no execution of validateAccount evaluates the check-digit
\* test, and the provider is contacted whenever both formats are valid,
\* whether or not the account number passes the check-digit test for the
\* bank code.
C15_FormatValidationOnly ==
    ValidateCalled
        => /\ ~C15_Ran("isPossibleNubanBank")
           /\ C15_ProviderReached
                => /\ Len(call.ran) = 3
                   /\ call.ran[1] = "validateNuban"
                   /\ call.ran[2] = "validateBankCode"
                   /\ call.ran[3] = queryMethod(instance.paymentProvider)
           /\ C15_ProviderReached
                <=> /\ validateNuban(call.accountNumber)
                    /\ validateBankCode(call.bankCode, instance.paymentProvider)

\* the provider was asked about, and confirmed, an account number that fails
\* the check-digit test for the bank code of the call
C15_Witness ==
    /\ ValidateSettled
    /\ C15_ProviderReached
    /\ ~isPossibleNubanBank(call.accountNumber, call.bankCode).value
    /\ response.state = "parsed"
    /\ ~outcome.threw
    /\ outcome.value.status = TRUE

\* ------------------------------------------------------------------------
\* The constructor
\* ------------------------------------------------------------------------
ConstructorReturned == call.op = "constructor" /\ pc = "returned"

\* C16: the constructor throws when apiKey is empty or the payment provider is
\* invalid (missing, or not one of PAYSTACK / FLUTTERWAVE), and succeeds only
\* for a non-empty key with a valid provider.
C16_ConstructorRejectsInvalid ==
    ConstructorReturned
        => (outcome.threw
              <=> (call.apiKey = "" \/ call.paymentProvider \notin PaymentProvider))

\* ------------------------------------------------------------------------
\* The documented weights
\* ------------------------------------------------------------------------
\* A*3+B*7+C*3+D*3+E*7+F*3+G*3+H*7+I*3+J*3+K*7+L*3+M*3+N*7+O*3 for the digits
\* of crypto
C17_DocumentedSum(crypto) ==
    reduce(crypto, generateSeedTriples(Len(crypto)), 1, 0)

\* C17: for a 6-digit bank code followed by the padded serial, 15 digits A..O,
\* the weighted sum behind the check digit is the one with the weights
\* 3,7,3 repeated (for length 9: [3, 7, 3, 3, 7, 3, 3, 7, 3]), so that
\* generateCheckDigit returns 10 - (that sum modulo 10) - 1.
C17_DocumentedWeights ==
    (GenerateReturned /\ ~outcome.threw /\ Len(call.bankCode) = 6)
        => outcome.value =
              10 - (C17_DocumentedSum(call.bankCode \o paddedCode(call.text)) % 10) - 1

\* ------------------------------------------------------------------------
\* Candidates sharing a code
\* ------------------------------------------------------------------------
C18_Returned(bank) ==
    \E k \in 1..Len(outcome.value) : outcome.value[k] = bank

\* C18: membership in the result of getPossibleNubanBanks depends only on a
\* candidate's code: two candidates of the list with the same code are both
\* returned or both omitted, whatever their id, slug, name, oldCode and weight.
C18_SameCodeSameMembership ==
    (GetPossibleReturned /\ ~outcome.threw)
        => \A i, j \in 1..Len(BanksArgument) :
              BanksArgument[i].code = BanksArgument[j].code
                 => (C18_Returned(BanksArgument[i]) <=> C18_Returned(BanksArgument[j]))

\* ACCESS BANK and ACCESS(DIAMOND) BANK, both 000014, were candidates and both
\* were returned
C18_Witness ==
    /\ GetPossibleReturned
    /\ call.banksGiven
    /\ call.banks = <<WEIGHTED_NIGERIAN_BANKS[1], WEIGHTED_NIGERIAN_BANKS[2]>>
    /\ ~outcome.threw
    /\ outcome.value = call.banks

\* the same two candidates, both omitted for a 10-digit account number
C18_WitnessOmitted ==
    /\ GetPossibleReturned
    /\ call.banksGiven
    /\ call.banks = <<WEIGHTED_NIGERIAN_BANKS[1], WEIGHTED_NIGERIAN_BANKS[2]>>
    /\ Len(call.text) = 10
    /\ ~outcome.threw
    /\ outcome.value = <<>>

\* ------------------------------------------------------------------------
\* The order of the checks of validateAccount
\* ------------------------------------------------------------------------
\* the call returned without contacting the provider
C19_DecidedOffline ==
    ValidateSettled /\ fetchCalls = call.fetchBefore

C19_OfflineMessage(message) ==
    /\ C19_DecidedOffline
    /\ ~outcome.threw
    /\ outcome.value.status = FALSE
    /\ outcome.value.message = message

\* C19: validateAccount checks the account-number format, then the bank-code
\* format, then dispatches to the provider, and the first failing check decides
\* the result: a malformed account number gives the account-number message
\* whatever the bank code and the provider; a well-formed one with a code the
\* provider does not admit gives the bank-code message; otherwise the provider
\* is called.  The result 'Unsupported payment provider' is never produced: an
\* instance whose provider is outside {PAYSTACK, FLUTTERWAVE} has every bank
\* code rejected by the bank-code check.
C19_CheckOrder ==
    ValidateCalled
        => /\ ~validateNuban(call.accountNumber)
                => C19_OfflineMessage(
                      <<"Invalid account number, digits should be exactly 10">>)
           /\ (/\ validateNuban(call.accountNumber)
               /\ ~validateBankCode(call.bankCode, instance.paymentProvider))
                => C19_OfflineMessage(
                      <<"Invalid bank code for payment provider - ",
                        instance.paymentProvider>>)
           /\ (/\ validateNuban(call.accountNumber)
               /\ validateBankCode(call.bankCode, instance.paymentProvider))
                => /\ fetchCalls = call.fetchBefore + 1
                   /\ instance.paymentProvider \in PaymentProvider
           /\ C19_DecidedOffline
                => outcome.value.message # <<"Unsupported payment provider">>
           /\ (/\ instance.paymentProvider \notin PaymentProvider
               /\ validateNuban(call.accountNumber))
                => C19_OfflineMessage(
                      <<"Invalid bank code for payment provider - ",
                        instance.paymentProvider>>)

\* an instance of an unknown provider, a well-formed account number and a
\* 3-digit code: the bank-code check answers
C19_Witness ==
    /\ ValidateSettled
    /\ instance.paymentProvider = "MONNIFY"
    /\ validateNuban(call.accountNumber)
    /\ call.bankCode = <<"0", "1", "2">>
    /\ outcome.value.message =
          <<"Invalid bank code for payment provider - ", "MONNIFY">>

\* a malformed account number with a malformed bank code: the account-number
\* check answers
C19_WitnessFirstCheck ==
    /\ ValidateSettled
    /\ ~validateNuban(call.accountNumber)
    /\ ~validateBankCode(call.bankCode, instance.paymentProvider)
    /\ outcome.value.message =
          <<"Invalid account number, digits should be exactly 10">>

====
